---- MODULE Spec2Model ----
(***************************************************************************)
(* The pentagon renderer of three.js: main(), the self-scheduling render() *)
(* callback, drawScene() as far as the render state reaches it, and the    *)
(* four click handlers registered by main().                               *)
(*                                                                         *)
(* JavaScript runs every callback to completion on one thread, so main(),  *)
(* one execution of render() and one click handler are one action each.    *)
(*                                                                         *)
(* Numbers.  rotationX, rotationY and the two speeds are IEEE-754 doubles. *)
(* Every value they take is a non-negative multiple of 2^-60 below 2, so a *)
(* double d is held exactly as the pair <<hi, lo>> with                    *)
(*     d = (hi * 2^30 + lo) / 2^60,   0 <= lo < 2^30.                      *)
(* An addition is the exact sum rounded to 53 significant bits, ties to    *)
(* even, which is what the += of lines 212-213 computes.                   *)
(*                                                                         *)
(* Colours are the four literals of the array in tenths: 0.2 is 2.         *)
(***************************************************************************)
EXTENDS Integers, Sequences, FiniteSets, TLC

VARIABLES
    pc,              \* where main() ended: "load", "noContext", "threw", "loop"
    rotationX,       \* line 198
    rotationY,       \* line 199
    rotationSpeedX,  \* line 200
    rotationSpeedY,  \* line 201
    isRotating,      \* line 202
    color,           \* line 195
    toggleText,      \* textContent of #toggleRotation
    shareDisplay,    \* style.display of #shareSection
    urlsWritten,     \* #graphicsUrl / #codeUrl have been filled in
    programOK,       \* shaderProgram is a linked program (not null)
    shaderFailed,    \* a shader stage failed to compile or the program to link
    listeners,       \* the four click listeners are registered
    alerts,          \* number of alert() calls
    renders,         \* number of executions of render()
    draws,           \* number of gl.drawArrays calls
    scheduled,       \* number of requestAnimationFrame calls
    pending,         \* animation-frame callbacks waiting to fire
    drawnX,          \* rotationX argument of the last drawScene call
    drawnY,          \* rotationY argument of the last drawScene call
    drawnColor,      \* color argument of the last drawScene call
    uiSeen           \* some click handler has run

vars == <<pc, rotationX, rotationY, rotationSpeedX, rotationSpeedY, isRotating,
          color, toggleText, shareDisplay, urlsWritten, programOK, shaderFailed,
          listeners, alerts, renders, draws, scheduled, pending, drawnX, drawnY,
          drawnColor, uiSeen>>

\* Number of executions of render() explored.
MaxTicks == 8

----------------------------------------------------------------------------
\* Doubles as exact multiples of 2^-60.

Base == 2^30

Zero == <<0, 0>>

\* 0.01  = 0x1.47ae147ae147bp-7 = 11529215046068470 / 2^60
SpeedX == <<10737418, 257698038>>

\* 0.005 = 0x1.47ae147ae147bp-8 = 5764607523034235 / 2^60
SpeedY == <<5368709, 128849019>>

RECURSIVE Bits(_)
Bits(n) == IF n = 0 THEN 0 ELSE 1 + Bits(n \div 2)

BitLen(v) == IF v[1] = 0 THEN Bits(v[2]) ELSE 30 + Bits(v[1])

\* Round an exact value to 53 significant bits, ties to even.
RoundDouble(v) ==
    LET d == BitLen(v) - 53 IN
    IF d <= 0 THEN v
    ELSE LET q    == 2^d
             r    == v[2] % q
             half == q \div 2
             down == v[2] - r
             odd  == (down \div q) % 2 = 1
             up   == r > half \/ (r = half /\ odd)
             lo2  == IF up THEN down + q ELSE down
         IN  IF lo2 >= Base THEN <<v[1] + 1, lo2 - Base>> ELSE <<v[1], lo2>>

ExactAdd(a, b) ==
    LET s == a[2] + b[2] IN <<a[1] + b[1] + (s \div Base), s % Base>>

\* a + b on doubles
NumberAdd(a, b) == RoundDouble(ExactAdd(a, b))

----------------------------------------------------------------------------
\* Colour presets.

Blue == <<2, 4, 8, 10>>

Red == <<8, 2, 2, 10>>

----------------------------------------------------------------------------
\* The state the callbacks read and write, as one record.

Cur ==
    [pc |-> pc, rotationX |-> rotationX, rotationY |-> rotationY,
     rotationSpeedX |-> rotationSpeedX, rotationSpeedY |-> rotationSpeedY,
     isRotating |-> isRotating, color |-> color, toggleText |-> toggleText,
     shareDisplay |-> shareDisplay, urlsWritten |-> urlsWritten,
     programOK |-> programOK, shaderFailed |-> shaderFailed,
     listeners |-> listeners, alerts |-> alerts, renders |-> renders,
     draws |-> draws, scheduled |-> scheduled, pending |-> pending,
     drawnX |-> drawnX, drawnY |-> drawnY, drawnColor |-> drawnColor]

Commit(t) ==
    /\ pc' = t.pc
    /\ rotationX' = t.rotationX
    /\ rotationY' = t.rotationY
    /\ rotationSpeedX' = t.rotationSpeedX
    /\ rotationSpeedY' = t.rotationSpeedY
    /\ isRotating' = t.isRotating
    /\ color' = t.color
    /\ toggleText' = t.toggleText
    /\ shareDisplay' = t.shareDisplay
    /\ urlsWritten' = t.urlsWritten
    /\ programOK' = t.programOK
    /\ shaderFailed' = t.shaderFailed
    /\ listeners' = t.listeners
    /\ alerts' = t.alerts
    /\ renders' = t.renders
    /\ draws' = t.draws
    /\ scheduled' = t.scheduled
    /\ pending' = t.pending
    /\ drawnX' = t.drawnX
    /\ drawnY' = t.drawnY
    /\ drawnColor' = t.drawnColor

\* The render state of the frame driver.
RenderState(s) ==
    [rotationX |-> s.rotationX, rotationY |-> s.rotationY,
     rotationSpeedX |-> s.rotationSpeedX, rotationSpeedY |-> s.rotationSpeedY,
     isRotating |-> s.isRotating, color |-> s.color]

----------------------------------------------------------------------------
\* drawScene (lines 354-418): what reaches the GPU from the render state.
\* The matrices are functions of the two angles it is passed; the call ends
\* in one gl.drawArrays.

drawScene(s) ==
    [s EXCEPT !.drawnX = s.rotationX, !.drawnY = s.rotationY,
              !.drawnColor = s.color, !.draws = @ + 1]

\* Faulty variants of the increment.
advanceSwappedSpeeds(s) ==
    IF s.isRotating
    THEN [s EXCEPT !.rotationX = NumberAdd(@, s.rotationSpeedY),
                   !.rotationY = NumberAdd(@, s.rotationSpeedX)]
    ELSE s

advanceAlways(s) ==
    [s EXCEPT !.rotationX = NumberAdd(@, s.rotationSpeedX),
              !.rotationY = NumberAdd(@, s.rotationSpeedY)]

advanceSameSpeed(s) ==
    IF s.isRotating
    THEN [s EXCEPT !.rotationX = NumberAdd(@, s.rotationSpeedX),
                   !.rotationY = NumberAdd(@, s.rotationSpeedX)]
    ELSE s

\* The increment of lines 211-214.
advance(s) ==
    IF s.isRotating
    THEN [s EXCEPT !.rotationX = NumberAdd(@, s.rotationSpeedX),
                   !.rotationY = NumberAdd(@, s.rotationSpeedY)]
    ELSE s

\* requestAnimationFrame(render), line 217.
requestAnimationFrame(s) ==
    [s EXCEPT !.scheduled = @ + 1, !.pending = @ + 1]

\* Faulty variants of render.
renderAdvanceFirst(s) ==
    CHOOSE r \in
        { requestAnimationFrame(c) : c \in
            { drawScene(b) : b \in
                { advance(a) : a \in {[s EXCEPT !.renders = @ + 1]} } } } : TRUE

renderStopsWhenPaused(s) ==
    CHOOSE r \in
        { IF c.isRotating THEN requestAnimationFrame(c) ELSE c : c \in
            { advance(b) : b \in
                { drawScene(a) : a \in {[s EXCEPT !.renders = @ + 1]} } } } : TRUE

\* render (lines 207-218): draw, then advance, then schedule.  Each step is
\* applied to the value the step before it produced.
render(s) ==
    CHOOSE r \in
        { requestAnimationFrame(c) : c \in
            { advance(b) : b \in
                { drawScene(a) : a \in {[s EXCEPT !.renders = @ + 1]} } } } : TRUE

----------------------------------------------------------------------------
\* The click handlers (lines 226-254).

\* Faulty variants of the handlers.
toggleRotationPauseOnly(s) ==
    [s EXCEPT !.isRotating = FALSE, !.toggleText = "Resume Rotation"]

changeColorWrongTest(s) ==
    IF s.color[1] = 2 /\ s.color[2] = 4 /\ s.color[3] = 2
    THEN [s EXCEPT !.color = Red]
    ELSE [s EXCEPT !.color = Blue]

resetViewAndResume(s) ==
    [s EXCEPT !.rotationX = Zero, !.rotationY = Zero, !.isRotating = TRUE]

resetViewXOnly(s) ==
    [s EXCEPT !.rotationX = Zero]

toggleRotation(s) ==
    LET r == ~s.isRotating IN
    [s EXCEPT !.isRotating = r,
              !.toggleText = IF r THEN "Pause Rotation" ELSE "Resume Rotation"]

changeColor(s) ==
    IF s.color[1] = 2 /\ s.color[2] = 4 /\ s.color[3] = 8
    THEN [s EXCEPT !.color = Red]
    ELSE [s EXCEPT !.color = Blue]

resetView(s) ==
    [s EXCEPT !.rotationX = Zero, !.rotationY = Zero]

shareButton(s) ==
    [s EXCEPT !.shareDisplay = IF @ = "none" THEN "block" ELSE "none",
              !.urlsWritten = TRUE]

----------------------------------------------------------------------------
\* Shader set-up (lines 264-308).

\* loadShader: the shader, or an alert and null.
loadShader(compiles) ==
    IF compiles THEN [shader |-> "shader", alerts |-> 0]
                ELSE [shader |-> "null", alerts |-> 1]

\* initShaderProgram: both stages are loaded, attached and linked; a link
\* failure alerts and returns null.  A null shader handed to gl.attachShader
\* is host-defined: the binding either throws a TypeError or records a GL
\* error and goes on, and the program then cannot link.
initShaderProgram(vsOK, fsOK, linkOK, nullThrows) ==
    LET vs == loadShader(vsOK)
        fs == loadShader(fsOK)
        loaded == vs.alerts + fs.alerts
        linked == vs.shader = "shader" /\ fs.shader = "shader" /\ linkOK
    IN  IF (vs.shader = "null" \/ fs.shader = "null") /\ nullThrows
        THEN [result |-> "TypeError", alerts |-> loaded]
        ELSE IF ~linked
        THEN [result |-> "null", alerts |-> loaded + 1]
        ELSE [result |-> "program", alerts |-> loaded]

\* main (lines 144-255).  No context: alert and return.  The result of
\* initShaderProgram is used unchecked: gl.getAttribLocation(null, ...) on
\* line 182 either throws (main ends there) or returns -1, and main goes on
\* to the first render() and to the listeners.
main(s, glOK, vsOK, fsOK, linkOK, nullThrows) ==
    IF ~glOK
    THEN [s EXCEPT !.pc = "noContext", !.alerts = @ + 1]
    ELSE LET p == initShaderProgram(vsOK, fsOK, linkOK, nullThrows)
             a == [s EXCEPT !.alerts = @ + p.alerts,
                            !.shaderFailed = p.result # "program"]
         IN  IF p.result = "TypeError" \/ (p.result = "null" /\ nullThrows)
             THEN [a EXCEPT !.pc = "threw"]
             ELSE [render([a EXCEPT !.programOK = (p.result = "program")])
                      EXCEPT !.listeners = TRUE, !.pc = "loop"]

----------------------------------------------------------------------------
\* The state machine.

Init ==
    /\ pc = "load"
    /\ rotationX = Zero
    /\ rotationY = Zero
    /\ rotationSpeedX = SpeedX
    /\ rotationSpeedY = SpeedY
    /\ isRotating = TRUE
    /\ color = Blue
    /\ toggleText = "markup"
    /\ shareDisplay \in {"", "none"}
    /\ urlsWritten = FALSE
    /\ programOK = FALSE
    /\ shaderFailed = FALSE
    /\ listeners = FALSE
    /\ alerts = 0
    /\ renders = 0
    /\ draws = 0
    /\ scheduled = 0
    /\ pending = 0
    /\ drawnX = Zero
    /\ drawnY = Zero
    /\ drawnColor = Blue
    /\ uiSeen = FALSE

\* window.onload = main (line 434).
Main ==
    /\ pc = "load"
    /\ \E glOK, vsOK, fsOK, linkOK, nullThrows \in BOOLEAN :
           \E t \in {main(Cur, glOK, vsOK, fsOK, linkOK, nullThrows)} : Commit(t)
    /\ UNCHANGED uiSeen

\* The host fires the pending animation-frame callback.
Tick ==
    /\ pending > 0
    /\ renders < MaxTicks
    /\ \E t \in {render([Cur EXCEPT !.pending = @ - 1])} : Commit(t)
    /\ UNCHANGED uiSeen

ClickToggleRotation ==
    /\ listeners
    /\ \E t \in {toggleRotation(Cur)} : Commit(t)
    /\ uiSeen' = TRUE

ClickChangeColor ==
    /\ listeners
    /\ \E t \in {changeColor(Cur)} : Commit(t)
    /\ uiSeen' = TRUE

ClickResetView ==
    /\ listeners
    /\ \E t \in {resetView(Cur)} : Commit(t)
    /\ uiSeen' = TRUE

ClickShareButton ==
    /\ listeners
    /\ \E t \in {shareButton(Cur)} : Commit(t)
    /\ uiSeen' = TRUE

Next ==
    \/ Main
    \/ Tick
    \/ ClickToggleRotation
    \/ ClickChangeColor
    \/ ClickResetView
    \/ ClickShareButton

Spec == Init /\ [][Next]_vars

\* The host fires a pending animation-frame callback at the next refresh.
LiveSpec == Init /\ [][Next]_vars /\ WF_vars(Tick)

----------------------------------------------------------------------------
\* Helpers of the properties.

\* The exact product n * v, n a non-negative integer.
RECURSIVE ExactTimes(_, _)
ExactTimes(n, v) == IF n = 0 THEN Zero ELSE ExactAdd(v, ExactTimes(n - 1, v))

\* n * v on doubles: the exact product, rounded once.
NumberTimes(n, v) == RoundDouble(ExactTimes(n, v))

\* a <= b
Leq(a, b) == a[1] < b[1] \/ (a[1] = b[1] /\ a[2] <= b[2])

\* n successive double additions of v, starting from 0.
RECURSIVE Accumulate(_, _)
Accumulate(n, v) == IF n = 0 THEN Zero ELSE NumberAdd(Accumulate(n - 1, v), v)

\* |a - b| <= n * 2^-53
Within(a, b, n) ==
    /\ Leq(a, ExactAdd(b, <<0, 128 * n>>))
    /\ Leq(b, ExactAdd(a, <<0, 128 * n>>))

\* An execution of render() (by main or by a tick) has taken place.
RenderStep == renders' # renders

----------------------------------------------------------------------------
\* C1 (as stated): after N executions of render() with no UI event in
\* between, rotationX equals N * rotationSpeedX and rotationY equals
\* N * rotationSpeedY.
TicksGiveExactMultiples ==
    (pc = "loop" /\ ~uiSeen) =>
        /\ rotationX = NumberTimes(renders, rotationSpeedX)
        /\ rotationY = NumberTimes(renders, rotationSpeedY)

\* C1 (amended): after N executions of render() with no UI event in between,
\* rotationX is the result of N successive double additions of rotationSpeedX
\* to 0, and rotationY likewise; that is N * speed exactly for N <= 5 and
\* within N * 2^-53 of the exact product otherwise.
TicksAccumulate ==
    (pc = "loop" /\ ~uiSeen) =>
        /\ rotationX = Accumulate(renders, rotationSpeedX)
        /\ rotationY = Accumulate(renders, rotationSpeedY)
        /\ renders <= 5 => /\ rotationX = NumberTimes(renders, rotationSpeedX)
                           /\ rotationY = NumberTimes(renders, rotationSpeedY)
        /\ Within(rotationX, ExactTimes(renders, rotationSpeedX), renders)
        /\ Within(rotationY, ExactTimes(renders, rotationSpeedY), renders)

TicksAccumulateWitness ==
    /\ pc = "loop"
    /\ ~uiSeen
    /\ renders = 6
    /\ rotationX # NumberTimes(6, rotationSpeedX)

\* C2: isRotating is TRUE when the loop starts, the pause/resume handler flips
\* it, and a step that changes it is a step of that handler: ticks, change
\* color, reset view and share leave it alone.
PauseOnlyByToggle ==
    /\ [](~uiSeen => isRotating)
    /\ [](isRotating \in BOOLEAN)
    /\ [][ClickToggleRotation => isRotating' = ~isRotating]_vars
    /\ [][isRotating' # isRotating => ClickToggleRotation]_vars
    /\ [][(RenderStep \/ ClickChangeColor \/ ClickResetView \/ ClickShareButton)
              => isRotating' = isRotating]_vars

PauseOnlyByToggleWitness ==
    /\ pc = "loop"
    /\ ~isRotating
    /\ renders >= 3
    /\ color = Red
    /\ shareDisplay = "block"
    /\ rotationX = Zero

\* C3: a tick executed while paused leaves both angles unchanged, toggling
\* leaves them unchanged, and a tick executed while running adds the speeds
\* to the values it finds, so rotation resumes from the paused values.
PausedTickKeepsAngles ==
    /\ [][(RenderStep /\ ~isRotating) => UNCHANGED <<rotationX, rotationY>>]_vars
    /\ [][ClickToggleRotation => UNCHANGED <<rotationX, rotationY>>]_vars
    /\ [][(RenderStep /\ isRotating) =>
              /\ rotationX' = NumberAdd(rotationX, rotationSpeedX)
              /\ rotationY' = NumberAdd(rotationY, rotationSpeedY)]_vars

\* Only a tick executed while paused draws non-zero angles and leaves them.
PausedTickKeepsAnglesWitness ==
    /\ pc = "loop"
    /\ ~isRotating
    /\ rotationX # Zero
    /\ drawnX = rotationX
    /\ drawnY = rotationY

\* C4: right after the reset view handler both angles are exactly 0, and
\* isRotating, color and the two speeds are what they were.
ResetZeroesAngles ==
    [][ClickResetView =>
          /\ rotationX' = Zero
          /\ rotationY' = Zero
          /\ UNCHANGED <<isRotating, color, rotationSpeedX, rotationSpeedY>>]_vars

\* Angles at 0 after frames with other angles were drawn: reset view ran.
ResetZeroesAnglesWitness ==
    /\ pc = "loop"
    /\ renders >= 3
    /\ ~isRotating
    /\ color = Red
    /\ drawnX # Zero
    /\ rotationX = Zero
    /\ rotationY = Zero

\* C5: color starts at blue, is always one of the two presets, the change
\* color handler maps each preset to the other, and a step that changes
\* color is a step of that handler.
ColorTwoStateCycle ==
    /\ [](~uiSeen => color = Blue)
    /\ [](color \in {Blue, Red})
    /\ [][ClickChangeColor => color' = IF color = Blue THEN Red ELSE Blue]_vars
    /\ [][color' # color => ClickChangeColor]_vars

\* Blue again after a red frame was drawn.
ColorTwoStateCycleWitness ==
    /\ pc = "loop"
    /\ color = Blue
    /\ drawnColor = Red
    /\ renders >= 3

\* C6 (as stated): when a shader stage fails to compile or the program fails
\* to link, an alert is shown and main() goes no further: nothing is drawn,
\* no tick is scheduled and no listener is registered.
ShaderFailureIsFatal ==
    shaderFailed =>
        /\ alerts >= 1
        /\ pc # "loop"
        /\ draws = 0
        /\ scheduled = 0
        /\ ~listeners

\* C7 (as stated): each of the four handlers is idempotent on the render
\* state.
AllHandlersIdempotent ==
    listeners =>
        /\ RenderState(toggleRotation(toggleRotation(Cur)))
               = RenderState(toggleRotation(Cur))
        /\ RenderState(changeColor(changeColor(Cur)))
               = RenderState(changeColor(Cur))
        /\ RenderState(resetView(resetView(Cur))) = RenderState(resetView(Cur))
        /\ RenderState(shareButton(shareButton(Cur)))
               = RenderState(shareButton(Cur))

\* C7 (amended): reset view is idempotent and reveal share info leaves the
\* render state alone; toggle pause and change color are not idempotent:
\* each changes the render state, and invoking it twice in a row restores
\* the render state it started from.
HandlerAlgebra ==
    listeners =>
        /\ RenderState(resetView(resetView(Cur))) = RenderState(resetView(Cur))
        /\ RenderState(shareButton(Cur)) = RenderState(Cur)
        /\ RenderState(toggleRotation(Cur)) # RenderState(Cur)
        /\ RenderState(toggleRotation(toggleRotation(Cur))) = RenderState(Cur)
        /\ RenderState(changeColor(Cur)) # RenderState(Cur)
        /\ RenderState(changeColor(changeColor(Cur))) = RenderState(Cur)

HandlerAlgebraWitness ==
    /\ listeners
    /\ uiSeen
    /\ ~isRotating
    /\ color = Red
    /\ rotationX # Zero
    /\ shareDisplay = "block"

\* C8 (as stated): the frame drawn by a tick executed while running uses the
\* angles after that tick's own increment.
DrawUsesAdvancedAngles ==
    [][(RenderStep /\ isRotating) =>
          (drawnX' = rotationX' /\ drawnY' = rotationY')]_vars

\* C8 (amended): within one tick the order is draw, advance if running,
\* schedule: every execution of render() draws the angles and the color it
\* finds, so the frame drawn by a tick executed while running uses the angles
\* before that tick's own increment, and the angles when the tick ends are
\* the drawn ones plus the speeds.
DrawPrecedesAdvance ==
    [][RenderStep =>
          /\ draws' = draws + 1
          /\ scheduled' = scheduled + 1
          /\ drawnX' = rotationX
          /\ drawnY' = rotationY
          /\ drawnColor' = color
          /\ IF isRotating
             THEN /\ rotationX' = NumberAdd(drawnX', rotationSpeedX)
                  /\ rotationY' = NumberAdd(drawnY', rotationSpeedY)
             ELSE /\ rotationX' = drawnX'
                  /\ rotationY' = drawnY']_vars

DrawPrecedesAdvanceWitness ==
    /\ pc = "loop"
    /\ isRotating
    /\ renders >= 3
    /\ drawnX # Zero
    /\ rotationX = NumberAdd(drawnX, rotationSpeedX)
    /\ rotationY = NumberAdd(drawnY, rotationSpeedY)

\* C9: once main() has reached the loop, every execution of render() issues
\* one draw and schedules one tick, exactly one callback is pending between
\* callbacks, no click handler adds or removes one, and frames keep being
\* drawn (up to the MaxTicks executions explored) whatever the clicks.
RenderLoopNeverStops ==
    /\ [](pending <= 1)
    /\ [](pc = "loop" <=> pending = 1)
    /\ [](draws = renders /\ scheduled = renders)
    /\ [][RenderStep =>
              /\ renders' = renders + 1
              /\ draws' = draws + 1
              /\ scheduled' = scheduled + 1]_vars
    /\ [][(ClickToggleRotation \/ ClickChangeColor \/ ClickResetView
               \/ ClickShareButton) =>
              UNCHANGED <<pending, scheduled, draws, renders>>]_vars
    /\ <>[](pc = "loop" => draws = MaxTicks)

RenderLoopNeverStopsWitness ==
    /\ pc = "loop"
    /\ ~isRotating
    /\ uiSeen
    /\ renders >= 4
    /\ drawnX = rotationX
    /\ pending = 1

\* C10 (as stated): in every reachable state there is one integer k >= 0
\* with rotationX = k * rotationSpeedX and rotationY = k * rotationSpeedY,
\* and rotationX = 2 * rotationY.
AnglesAreExactMultiples ==
    \E k \in 0..MaxTicks :
        /\ rotationX = NumberTimes(k, rotationSpeedX)
        /\ rotationY = NumberTimes(k, rotationSpeedY)
        /\ rotationX = NumberTimes(2, rotationY)

\* C10 (amended): in every reachable state there is one integer k >= 0, at
\* most the number of ticks so far, such that rotationX and rotationY are
\* the results of k successive double additions of their speeds to 0; then
\* rotationX = 2 * rotationY exactly, and neither angle is negative.
AnglesInLockstep ==
    /\ \E k \in 0..renders :
           /\ rotationX = Accumulate(k, rotationSpeedX)
           /\ rotationY = Accumulate(k, rotationSpeedY)
    /\ rotationX = NumberTimes(2, rotationY)
    /\ Leq(Zero, rotationX)
    /\ Leq(Zero, rotationY)

AnglesInLockstepWitness ==
    /\ uiSeen
    /\ renders = MaxTicks
    /\ rotationX = Accumulate(6, rotationSpeedX)
    /\ rotationX # NumberTimes(6, rotationSpeedX)

====
